---- MODULE Spec2Model ----
(***************************************************************************)
(* The migration scripts of the Jellyfin migrator:                         *)
(*   export-scripts/user-watched-export.py  (the Extractor)                *)
(*   import-scripts/user-watched-import.py  (the Resolver and the Loader)  *)
(*   import-scripts/devices-import.py       (the device importer)          *)
(*   import-scripts/password-import.py      (the password transfer)        *)
(* Strings the code slices, rewrites or lower-cases (paths, fingerprints,  *)
(* usernames of the source store) are sequences of one-character strings;  *)
(* values the code only compares or copies (destination usernames, ids,    *)
(* dates) are atomic strings.                                              *)
(***************************************************************************)
EXTENDS Integers, Sequences, FiniteSets, Bags, TLC

VARIABLES
    \* ---- the Loader (user-watched-import.py main) ----
    Users,            \* destination jellyfin.db, table Users: set of [Username, Id]
    TypedBaseItems,   \* destination library.db, catalog rows in scan order
    UserDatas,        \* destination library.db, committed UserDatas rows (a bag)
    tx,               \* UserDatas as new_lib_conn sees it inside its open transaction
    watched_data,     \* the artifact loaded by json.load
    user_map,         \* result of get_user_map
    idx,              \* position of the for loop in watched_data (1-based)
    pc,               \* "idle", "loop", "done"
    status,           \* how the last run ended
    migrated_count,   \* the run's only counter
    out,              \* what the run printed, one entry per print in the loop and after
    lib_queries,      \* number of catalog SELECTs the run issued
    pre,              \* UserDatas as committed when the run started
    rerun,            \* TRUE when the run repeats the artifact of the run before it
    prev_status,      \* status of the run before this one
    \* ---- the Extractor (user-watched-export.py main) ----
    src_items,        \* source library.db TypedBaseItems, in scan order
    src_datas,        \* source library.db UserDatas, in scan order
    src_users,        \* source jellyfin.db Users, in scan order
    exported_data,    \* the list json.dump writes
    x_pc,             \* "ready", "done"
    \* ---- translate_path called on one value ----
    windows_path, path_result, path_raised, path_pc,
    \* ---- fingerprint renderings ----
    fp_in, fp_formatted, fp_canon, fp_reformatted, fp_pc,
    \* ---- the device importer (devices-import.py main) ----
    d_users,          \* destination jellyfin.db, table Users: set of [Username, Id]
    Devices,          \* destination jellyfin.db, committed Devices rows (a bag)
    d_tx,             \* Devices as new_conn sees it inside its open transaction
    device_data,      \* the artifact loaded by json.load
    d_user_map,       \* result of get_user_map
    d_idx,            \* position of the for loop in device_data (1-based)
    d_pc,             \* "off", "idle", "loop", "done"
    d_status,         \* how the last run ended
    d_migrated_count, \* migrated_count of main
    d_skipped_count,  \* skipped_count of main
    d_pre,            \* Devices as committed when the run started
    d_rerun,          \* TRUE when the run repeats the artifact of the run before it
    d_prev_status,    \* status of the run before this one
    \* ---- the password transfer (password-import.py transfer_password_hashes) ----
    old_users,        \* old jellyfin.db, table Users in scan order: [Username, Password]
    new_users,        \* new jellyfin.db, committed Users rows: set of [Username, Password]
    p_nocase,         \* TRUE when Users.Username of the new database is COLLATE NOCASE
    p_tx,             \* Users of the new database as new_conn sees it in its transaction
    old_users_data,   \* the dict of line 43, as its items in insertion order
    new_users_set,    \* the set of line 49
    p_idx,            \* position of the for loop in old_users_data.items() (1-based)
    p_pc,             \* "off", "idle", "loop", "done"
    p_status,         \* how the last run ended
    updated_count,    \* updated_count of transfer_password_hashes
    skipped_count,    \* skipped_count of transfer_password_hashes
    p_pre             \* new_users as committed when the run started

loaderVars == <<Users, TypedBaseItems, UserDatas, tx, watched_data, user_map, idx, pc,
                status, migrated_count, out, lib_queries, pre, rerun, prev_status>>
extractVars == <<src_items, src_datas, src_users, exported_data, x_pc>>
pathVars == <<windows_path, path_result, path_raised, path_pc>>
fpVars == <<fp_in, fp_formatted, fp_canon, fp_reformatted, fp_pc>>
devVars == <<d_users, Devices, d_tx, device_data, d_user_map, d_idx, d_pc, d_status,
             d_migrated_count, d_skipped_count, d_pre, d_rerun, d_prev_status>>
pwVars == <<old_users, new_users, p_nocase, p_tx, old_users_data, new_users_set, p_idx,
            p_pc, p_status, updated_count, skipped_count, p_pre>>
vars == <<loaderVars, extractVars, pathVars, fpVars, devVars, pwVars>>

----------------------------------------------------------------------------
(* Values *)

\* Python's None / SQL NULL where a character-sequence string is expected.
None == <<"None">>
\* Python's None where an atomic value (a username, an id) is expected.
NoneAtom == "None"

BS == "\\"
SL == "/"

\* Python's s[a:b] for 0 <= a <= b (indices clamp to the length).
Slice(s, a, b) ==
    LET hi == IF b < Len(s) THEN b ELSE Len(s)
    IN  IF a >= hi THEN <<>> ELSE SubSeq(s, a + 1, hi)

\* Python's s[a:].
SliceFrom(s, a) == Slice(s, a, Len(s))

\* str.replace(old, new) and SQL REPLACE(s, old, new) for a non-empty old:
\* every non-overlapping occurrence, scanning from the left.
RECURSIVE replace(_, _, _)
replace(s, old, new) ==
    IF Len(s) < Len(old) THEN s
    ELSE IF SubSeq(s, 1, Len(old)) = old
         THEN new \o replace(SubSeq(s, Len(old) + 1, Len(s)), old, new)
         ELSE <<Head(s)>> \o replace(Tail(s), old, new)

StartsWith(s, p) == Len(s) >= Len(p) /\ SubSeq(s, 1, Len(p)) = p

RECURSIVE Occurrences(_, _)
Occurrences(s, p) ==
    IF Len(s) < Len(p) THEN 0
    ELSE (IF StartsWith(s, p) THEN 1 ELSE 0) + Occurrences(Tail(s), p)

----------------------------------------------------------------------------
(* translate_path *)

\* "F:\\Media\\"
SrcPrefix == <<"F", ":", BS, "M", "e", "d", "i", "a", BS>>
\* "/media/"
DstPrefix == <<SL, "m", "e", "d", "i", "a", SL>>

translate_path(p) == replace(replace(p, SrcPrefix, DstPrefix), <<BS>>, <<SL>>)

\* windows_path.replace on None raises AttributeError.
translate_path_raises(p) == p = None

\* Inputs: concatenations of at most MaxSegs segments.
MaxSegs == 3
Segments == {SrcPrefix, <<BS>>, <<SL>>, <<"x">>, <<"F", ":">>}

RECURSIVE Concats(_)
Concats(n) ==
    IF n = 0 THEN {<<>>}
    ELSE LET shorter == Concats(n - 1)
         IN  shorter \cup {s \o g : s \in shorter, g \in Segments}

PathInputs == Concats(MaxSegs) \cup {None}

InitPath ==
    /\ windows_path \in PathInputs
    /\ path_result = None
    /\ path_raised = FALSE
    /\ path_pc = "ready"

PathIdle ==
    /\ windows_path = None
    /\ path_result = None
    /\ path_raised = FALSE
    /\ path_pc = "off"

CallTranslatePath ==
    /\ path_pc = "ready"
    /\ path_pc' = "returned"
    /\ IF translate_path_raises(windows_path)
       THEN /\ path_raised' = TRUE
            /\ path_result' = None
       ELSE /\ path_raised' = FALSE
            /\ path_result' = translate_path(windows_path)
    /\ UNCHANGED <<windows_path, loaderVars, extractVars, fpVars, devVars, pwVars>>

----------------------------------------------------------------------------
(* Fingerprint renderings *)

\* A rendering whose third group stops one character early.
formatted_key_short(k) ==
    Slice(k, 0, 8) \o <<"-">> \o Slice(k, 8, 12) \o <<"-">> \o Slice(k, 12, 15)
        \o <<"-">> \o Slice(k, 16, 20) \o <<"-">> \o SliceFrom(k, 20)

\* f"{k[:8]}-{k[8:12]}-{k[12:16]}-{k[16:20]}-{k[20:]}"
formatted_key(k) ==
    Slice(k, 0, 8) \o <<"-">> \o Slice(k, 8, 12) \o <<"-">> \o Slice(k, 12, 16)
        \o <<"-">> \o Slice(k, 16, 20) \o <<"-">> \o SliceFrom(k, 20)

\* REPLACE(d.Key, '-', '')
canonical_key(Key) == replace(Key, <<"-">>, <<>>)

G8  == {<<"9", "f", "8", "e", "0", "1", "2", "3">>, <<"0", "0", "0", "0", "0", "0", "0", "0">>}
G4a == {<<"4", "5", "6", "7">>, <<"a", "a", "a", "a">>}
G4b == {<<"8", "9", "a", "b">>, <<"b", "b", "b", "b">>}
G4c == {<<"c", "d", "e", "f">>, <<"c", "c", "c", "c">>}
G12 == {<<"1", "0", "3", "2", "5", "4", "7", "6", "9", "8", "b", "a">>,
        <<"d", "d", "d", "d", "d", "d", "d", "d", "d", "d", "d", "d">>}

\* Undashed fingerprints of 32 hex characters.
UndashedInputs == {a \o b \o c \o d \o e : a \in G8, b \in G4a, c \in G4b, d \in G4c, e \in G12}
\* Dashed 8-4-4-4-12 fingerprints, written out group by group.
DashedInputs ==
    {a \o <<"-">> \o b \o <<"-">> \o c \o <<"-">> \o d \o <<"-">> \o e :
        a \in G8, b \in G4a, c \in G4b, d \in G4c, e \in G12}

InitFp ==
    /\ fp_in \in UndashedInputs \cup DashedInputs
    /\ fp_formatted = None
    /\ fp_canon = None
    /\ fp_reformatted = None
    /\ fp_pc = "start"

FpIdle ==
    /\ fp_in = None
    /\ fp_formatted = None
    /\ fp_canon = None
    /\ fp_reformatted = None
    /\ fp_pc = "off"

\* The Loader renders an undashed fingerprint.
FormatUndashed ==
    /\ fp_pc = "start"
    /\ fp_in \in UndashedInputs
    /\ fp_formatted' = formatted_key(fp_in)
    /\ fp_pc' = "formatted"
    /\ UNCHANGED <<fp_in, fp_canon, fp_reformatted, loaderVars, extractVars, pathVars, devVars, pwVars>>

\* The Extractor canonicalizes a dashed fingerprint: the Loader's rendering, or a
\* dashed input.
Canonicalize ==
    \/ /\ fp_pc = "formatted"
       /\ fp_canon' = canonical_key(fp_formatted)
       /\ fp_pc' = "canon"
       /\ UNCHANGED <<fp_in, fp_formatted, fp_reformatted, loaderVars, extractVars, pathVars, devVars, pwVars>>
    \/ /\ fp_pc = "start"
       /\ fp_in \in DashedInputs
       /\ fp_canon' = canonical_key(fp_in)
       /\ fp_pc' = "canon"
       /\ UNCHANGED <<fp_in, fp_formatted, fp_reformatted, loaderVars, extractVars, pathVars, devVars, pwVars>>

\* The Loader renders the canonical form again.
Reformat ==
    /\ fp_pc = "canon"
    /\ fp_reformatted' = formatted_key(fp_canon)
    /\ fp_pc' = "done"
    /\ UNCHANGED <<fp_in, fp_formatted, fp_canon, loaderVars, extractVars, pathVars, devVars, pwVars>>

----------------------------------------------------------------------------
(* The destination stores and the artifact *)

\* Windows and translated forms of two media files.
WinA == SrcPrefix \o <<"a">>
WinB == SrcPrefix \o <<"b">>
MediaA == DstPrefix \o <<"a">>
MediaB == DstPrefix \o <<"b">>

\* Destination fingerprints as TypedBaseItems.PresentationUniqueKey holds them.
K1 == <<"9", "f", "8", "e", "0", "1", "2", "3", "4", "5", "6", "7", "8", "9", "a", "b",
        "c", "d", "e", "f", "1", "0", "3", "2", "5", "4", "7", "6", "9", "8", "b", "a">>
K2 == <<"0", "0", "0", "0", "0", "0", "0", "0", "a", "a", "a", "a", "b", "b", "b", "b",
        "c", "c", "c", "c", "d", "d", "d", "d", "d", "d", "d", "d", "d", "d", "d", "d">>
\* A key that is not a 32-character GUID (Jellyfin also stores provider keys here).
KShort == <<"t", "t", "1", "2", "3", "4", "5", "6", "7", "8">>

CatalogRow(path, key) == [Path |-> path, PresentationUniqueKey |-> key]

CatalogOptions ==
    { <<CatalogRow(MediaA, K1)>>,
      <<CatalogRow(MediaA, K1), CatalogRow(MediaB, K2)>>,
      <<CatalogRow(MediaA, K1), CatalogRow(MediaA, K2)>>,
      <<CatalogRow(MediaA, None), CatalogRow(MediaB, K2)>>,
      <<CatalogRow(MediaA, KShort)>> }

UserRow(name, id) == [Username |-> name, Id |-> id]

UsersOptions ==
    { {UserRow("alice", "u1")},
      {UserRow("alice", "u1"), UserRow("bob", "u2")},
      {UserRow("alice", "u1"), UserRow("bob", "")} }

\* A UserDatas row, the nine columns the Loader names.
DataRow(key, uid, played, count, fav, ticks, date, audio, sub) ==
    [Key |-> key, UserId |-> uid, Played |-> played, PlayCount |-> count,
     IsFavorite |-> fav, PlaybackPositionTicks |-> ticks, LastPlayedDate |-> date,
     AudioStreamIndex |-> audio, SubtitleStreamIndex |-> sub]

\* Rows the destination may hold before the first run: one the artifact can hit,
\* one it cannot.
ExistingRow == DataRow(formatted_key(K1), "u1", 0, 3, 1, 100, "d0", 2, 3)
ForeignRow == DataRow(formatted_key(K2), "u9", 1, 2, 0, 900, "d9", 0, 0)

UserDatasOptions ==
    { EmptyBag, SetToBag({ExistingRow}), SetToBag({ExistingRow, ForeignRow}) }

\* One object of watched_data, as item.get reads it (a missing field reads None).
WatchRecord(name, path, ticks, date, username, key) ==
    [ItemName |-> name, Path |-> path, PlaybackPositionTicks |-> ticks,
     LastPlayedDate |-> date, Username |-> username, PresentationUniqueKey |-> key]

Records ==
    { WatchRecord("ep1", WinA, 500, "d1", "alice", K2),
      WatchRecord("ep1", MediaA, 700, "d2", "alice", K2),
      WatchRecord("ep1", WinA, 500, "d1", "bob", K2),
      WatchRecord("ep2", WinB, 700, "d2", "alice", K1),
      WatchRecord("ep3", None, 500, "d1", "alice", K1),
      WatchRecord("ep2", WinB, 500, "d1", NoneAtom, K1) }

MaxLen == 2

RECURSIVE SeqsUpTo(_, _)
SeqsUpTo(S, n) ==
    IF n = 0 THEN {<<>>}
    ELSE LET shorter == SeqsUpTo(S, n - 1)
         IN  shorter \cup {Append(s, x) : s \in shorter, x \in S}

Artifacts == SeqsUpTo(Records, MaxLen)

----------------------------------------------------------------------------
(* Helpers of the Loader *)

\* user_map[row[0]] = row[1] for every row of SELECT Username, Id FROM Users.
get_user_map(rows) ==
    [n \in {r.Username : r \in rows} |-> (CHOOSE r \in rows : r.Username = n).Id]

\* dict.get(key): the value, or None.
dict_get(d, k) == IF k \in DOMAIN d THEN d[k] ELSE NoneAtom

\* A user check that lets every record through.
TruthyId_always(v) == TRUE

\* Python truth of an id: None and '' are false.
TruthyId(v) == v # NoneAtom /\ v # ""

\* Python truth of a string read from the catalog: None and '' are false.
TruthyStr(v) == v # None /\ v # <<>>

\* A lookup that falls back to the first catalog row when no path matches.
get_presentation_key_fallback(items, file_path) ==
    LET hits == {k \in 1..Len(items) : items[k].Path = file_path}
    IN  IF hits = {} THEN items[1].PresentationUniqueKey
        ELSE items[CHOOSE k \in hits : \A m \in hits : k <= m].PresentationUniqueKey

\* SELECT PresentationUniqueKey FROM TypedBaseItems WHERE Path = ? ; fetchone():
\* the first matching row in scan order, result[0] if there is one, else None.
\* The scan order is part of the store (the sequence TypedBaseItems), so two runs
\* on one unchanged store get the same row.
get_new_presentation_key(items, file_path) ==
    LET hits == {k \in 1..Len(items) : items[k].Path = file_path}
    IN  IF hits = {} THEN None
        ELSE items[CHOOSE k \in hits : \A m \in hits : k <= m].PresentationUniqueKey

\* A parameter tuple that adds to a play count of 1.
insert_values_counting(new_pres_key, new_user_id, position, last_played) ==
    DataRow(formatted_key(new_pres_key), new_user_id, 1, 2, 0, position, last_played, -1, -1)

\* The parameter tuple of the INSERT: (formatted_key, new_user_id, 1, 1, 0,
\* position, last_played, -1, -1).
insert_values(new_pres_key, new_user_id, position, last_played) ==
    DataRow(formatted_key(new_pres_key), new_user_id, 1, 1, 0, position, last_played, -1, -1)

\* A conflict test on the Key column alone.
Conflicts_key_only(t, row) == {r \in DOMAIN t : r.Key = row.Key}

\* A conflict test on the UserId column alone.
Conflicts_user_only(t, row) == {r \in DOMAIN t : r.UserId = row.UserId}

\* A conflict test on the whole row instead of the index columns.
Conflicts_exact(t, row) == {r \in DOMAIN t : r = row}

\* Rows of table t that conflict with row on the unique index (Key, UserId).
Conflicts(t, row) == {r \in DOMAIN t : r.Key = row.Key /\ r.UserId = row.UserId}

\* INSERT OR IGNORE: the row is dropped when a row of its pair is in the table.
insert_or_ignore(t, row) ==
    IF Conflicts(t, row) = {} THEN t (+) SetToBag({row}) ELSE t

\* A plain INSERT: the row is added whatever the table holds.
insert_plain(t, row) == t (+) SetToBag({row})

\* INSERT OR REPLACE INTO UserDatas: conflicting rows are deleted, the row is added.
\* (library.db declares the unique index UserDatasIndex1 on (key, userId).)
insert_or_replace(t, row) ==
    LET kept == DOMAIN t \ Conflicts(t, row)
    IN  [r \in kept |-> t[r]] (+) SetToBag({row})

\* What the store holds after new_lib_conn.commit().
commit(committed, work) == work

\* A rollback that keeps the transaction's work.
rollback_keeps(committed, work) == work

\* What the store holds after new_lib_conn.rollback(), and after close() with the
\* transaction still open.
rollback(committed, work) == committed

Msg(kind, n) == [kind |-> kind, n |-> n]

----------------------------------------------------------------------------
(* The Loader: main() of user-watched-import.py, one action per step *)

\* The counters main() keeps and reports: migrated_count is the only one.
Counters == [migrated |-> migrated_count]

item == watched_data[idx]
new_user_id == dict_get(user_map, item.Username)
new_path == translate_path(item.Path)
\* The fingerprint the record carries, taken for the row.
new_pres_key_copied == item.PresentationUniqueKey
new_pres_key == get_new_presentation_key(TypedBaseItems, new_path)

InLoop == pc = "loop" /\ idx <= Len(watched_data)

\* What the body of the loop (lines 75-107) does with record r, decided in the
\* order of the code: user check, translate_path, catalog lookup, upsert.
outcome(map, items, r) ==
    IF ~TruthyId(dict_get(map, r.Username)) THEN "skip_user"
    ELSE IF translate_path_raises(r.Path) THEN "raise"
    ELSE IF ~TruthyStr(get_new_presentation_key(items, translate_path(r.Path)))
         THEN "skip_media"
    ELSE "migrated"

\* The table the transaction sees after the body of the loop has run on record r.
process_item(map, items, t, r) ==
    IF outcome(map, items, r) = "migrated"
    THEN insert_or_replace(t,
             insert_values(get_new_presentation_key(items, translate_path(r.Path)),
                           dict_get(map, r.Username),
                           r.PlaybackPositionTicks, r.LastPlayedDate))
    ELSE t

\* The table the transaction sees after the loop has run on every record of data.
RECURSIVE process_all(_, _, _, _)
process_all(map, items, t, data) ==
    IF Len(data) = 0 THEN t
    ELSE process_all(map, items, process_item(map, items, t, Head(data)), Tail(data))

\* The committed table after a run of main() that no sqlite3.Error interrupts: the
\* loop's table once commit() is reached, the table of before when translate_path
\* raises on some record (the exception leaves main() before commit()).
loader_result(map, items, t, data) ==
    IF \E k \in 1..Len(data) : outcome(map, items, data[k]) = "raise"
    THEN rollback(t, process_all(map, items, t, data))
    ELSE commit(t, process_all(map, items, t, data))


InitLoader ==
    /\ Users \in UsersOptions
    /\ TypedBaseItems \in CatalogOptions
    /\ UserDatas \in UserDatasOptions
    /\ tx = UserDatas
    /\ pre = UserDatas
    /\ watched_data = <<>>
    /\ user_map = <<>>
    /\ idx = 1
    /\ pc = "idle"
    /\ status = "none"
    /\ prev_status = "none"
    /\ migrated_count = 0
    /\ out = <<>>
    /\ lib_queries = 0
    /\ rerun = FALSE

LoaderIdle ==
    /\ Users = {}
    /\ TypedBaseItems = <<>>
    /\ UserDatas = EmptyBag
    /\ tx = EmptyBag
    /\ pre = EmptyBag
    /\ watched_data = <<>>
    /\ user_map = <<>>
    /\ idx = 1
    /\ pc = "off"
    /\ status = "none"
    /\ prev_status = "none"
    /\ migrated_count = 0
    /\ out = <<>>
    /\ lib_queries = 0
    /\ rerun = FALSE

\* Lines 41-71: a file is missing, a connection fails, the JSON does not decode
\* (main returns) or the Users query raises (main dies); no record is read.
AbortRun ==
    /\ pc = "idle"
    /\ \E why \in {"not_found", "connect_error", "json_error", "users_error"} :
          out' = <<Msg(why, 0)>>
    /\ pc' = "done"
    /\ status' = "aborted"
    /\ pre' = UserDatas
    /\ UNCHANGED <<Users, TypedBaseItems, UserDatas, tx, watched_data, user_map, idx,
                   migrated_count, lib_queries, rerun, prev_status>>
    /\ UNCHANGED <<extractVars, pathVars, fpVars, devVars, pwVars>>

\* Lines 41-74: the checks pass, the artifact is loaded, the user map is built,
\* migrated_count = 0.
StartRun ==
    /\ pc = "idle"
    /\ IF rerun
       THEN UNCHANGED watched_data
       ELSE watched_data' \in Artifacts
    /\ user_map' = get_user_map(Users)
    /\ idx' = 1
    /\ migrated_count' = 0
    /\ lib_queries' = 0
    /\ out' = <<>>
    /\ pre' = UserDatas
    /\ tx' = UserDatas
    /\ pc' = "loop"
    /\ status' = "running"
    /\ UNCHANGED <<Users, TypedBaseItems, UserDatas, rerun, prev_status>>
    /\ UNCHANGED <<extractVars, pathVars, fpVars, devVars, pwVars>>

\* Lines 83-86: the username has no truthy id in user_map.
SkipUnknownUser ==
    /\ InLoop
    /\ ~TruthyId(new_user_id)
    /\ out' = Append(out, Msg("skip_user", idx))
    /\ idx' = idx + 1
    /\ UNCHANGED <<Users, TypedBaseItems, UserDatas, tx, watched_data, user_map, pc,
                   status, migrated_count, lib_queries, pre, rerun, prev_status>>
    /\ UNCHANGED <<extractVars, pathVars, fpVars, devVars, pwVars>>

\* Line 89 on a record without Path: AttributeError, which except sqlite3.Error
\* does not catch; finally closes the connections, the open transaction is lost.
RaiseOnPath ==
    /\ InLoop
    /\ TruthyId(new_user_id)
    /\ translate_path_raises(item.Path)
    /\ UserDatas' = rollback(UserDatas, tx)
    /\ tx' = UserDatas'
    /\ out' = Append(out, Msg("closed", 0))
    /\ pc' = "done"
    /\ status' = "crashed"
    /\ UNCHANGED <<Users, TypedBaseItems, watched_data, user_map, idx, migrated_count,
                   lib_queries, pre, rerun, prev_status>>
    /\ UNCHANGED <<extractVars, pathVars, fpVars, devVars, pwVars>>

\* A skip of an unresolved record that prints nothing.
SkipUnresolved_silent ==
    /\ InLoop
    /\ TruthyId(new_user_id)
    /\ ~translate_path_raises(item.Path)
    /\ ~TruthyStr(new_pres_key)
    /\ lib_queries' = lib_queries + 1
    /\ idx' = idx + 1
    /\ UNCHANGED <<Users, TypedBaseItems, UserDatas, tx, watched_data, user_map, pc,
                   status, migrated_count, out, pre, rerun, prev_status>>
    /\ UNCHANGED <<extractVars, pathVars, fpVars, devVars, pwVars>>

\* Lines 89-94: the catalog has no truthy key for the translated path.
SkipUnresolved ==
    /\ InLoop
    /\ TruthyId(new_user_id)
    /\ ~translate_path_raises(item.Path)
    /\ ~TruthyStr(new_pres_key)
    /\ lib_queries' = lib_queries + 1
    /\ out' = Append(out, Msg("skip_media", idx))
    /\ idx' = idx + 1
    /\ UNCHANGED <<Users, TypedBaseItems, UserDatas, tx, watched_data, user_map, pc,
                   status, migrated_count, pre, rerun, prev_status>>
    /\ UNCHANGED <<extractVars, pathVars, fpVars, devVars, pwVars>>

\* Lines 96-107: the row is written inside the transaction.
UpsertRow ==
    /\ InLoop
    /\ TruthyId(new_user_id)
    /\ ~translate_path_raises(item.Path)
    /\ TruthyStr(new_pres_key)
    /\ lib_queries' = lib_queries + 1
    /\ tx' = insert_or_replace(tx, insert_values(new_pres_key, new_user_id,
                                  item.PlaybackPositionTicks, item.LastPlayedDate))
    /\ migrated_count' = migrated_count + 1
    /\ idx' = idx + 1
    /\ UNCHANGED <<Users, TypedBaseItems, UserDatas, watched_data, user_map, pc, status,
                   out, pre, rerun, prev_status>>
    /\ UNCHANGED <<extractVars, pathVars, fpVars, devVars, pwVars>>

\* Lines 113-120: the SELECT or the INSERT of this record raises sqlite3.Error.
SqliteError ==
    /\ InLoop
    /\ TruthyId(new_user_id)
    /\ ~translate_path_raises(item.Path)
    /\ lib_queries' = lib_queries + 1
    /\ UserDatas' = rollback(UserDatas, tx)
    /\ tx' = UserDatas'
    /\ out' = out \o <<Msg("error", 0), Msg("closed", 0)>>
    /\ pc' = "done"
    /\ status' = "failed"
    /\ UNCHANGED <<Users, TypedBaseItems, watched_data, user_map, idx, migrated_count,
                   pre, rerun, prev_status>>
    /\ UNCHANGED <<extractVars, pathVars, fpVars, devVars, pwVars>>

\* Lines 109-111, 116-120: the loop is over, commit succeeds.
Commit ==
    /\ pc = "loop"
    /\ idx > Len(watched_data)
    /\ UserDatas' = commit(UserDatas, tx)
    /\ tx' = UserDatas'
    /\ out' = out \o <<Msg("complete", migrated_count), Msg("closed", 0)>>
    /\ pc' = "done"
    /\ status' = "committed"
    /\ UNCHANGED <<Users, TypedBaseItems, watched_data, user_map, idx, migrated_count,
                   lib_queries, pre, rerun, prev_status>>
    /\ UNCHANGED <<extractVars, pathVars, fpVars, devVars, pwVars>>

\* Lines 110, 113-120: commit raises sqlite3.Error.
CommitFails ==
    /\ pc = "loop"
    /\ idx > Len(watched_data)
    /\ UserDatas' = rollback(UserDatas, tx)
    /\ tx' = UserDatas'
    /\ out' = out \o <<Msg("error", 0), Msg("closed", 0)>>
    /\ pc' = "done"
    /\ status' = "failed"
    /\ UNCHANGED <<Users, TypedBaseItems, watched_data, user_map, idx, migrated_count,
                   lib_queries, pre, rerun, prev_status>>
    /\ UNCHANGED <<extractVars, pathVars, fpVars, devVars, pwVars>>

\* The process has ended; the operator runs the script again, on the same artifact
\* (keep) or on another one.
Finish ==
    /\ pc = "done"
    /\ \E keep \in BOOLEAN :
          /\ rerun' = (keep /\ status \in {"committed", "crashed", "failed"})
          /\ watched_data' = IF rerun' THEN watched_data ELSE <<>>
          /\ prev_status' = IF rerun' THEN status ELSE "none"
    /\ pc' = "idle"
    /\ status' = "none"
    /\ user_map' = <<>>
    /\ idx' = 1
    /\ migrated_count' = 0
    /\ lib_queries' = 0
    /\ out' = <<>>
    /\ pre' = UserDatas
    /\ UNCHANGED <<Users, TypedBaseItems, UserDatas, tx>>
    /\ UNCHANGED <<extractVars, pathVars, fpVars, devVars, pwVars>>

----------------------------------------------------------------------------
(* The Extractor: main() of user-watched-export.py *)

Alice == <<"a", "l", "i", "c", "e">>
JellyfinLower == <<"j", "e", "l", "l", "y", "f", "i", "n">>
JellyfinTitle == <<"J", "e", "l", "l", "y", "f", "i", "n">>

\* str.lower() on the characters usernames are written with here.
lower_char(c) == IF c = "J" THEN "j" ELSE c
lower(s) == [k \in 1..Len(s) |-> lower_char(s[k])]

\* The account the migration leaves out: username.lower() == 'jellyfin'.
is_excluded_user(username) == lower(username) = JellyfinLower

SrcItem(name, path, key) == [Name |-> name, Path |-> path, PresentationUniqueKey |-> key]
SrcData(key, uid, ticks, date) ==
    [Key |-> key, UserId |-> uid, PlaybackPositionTicks |-> ticks, LastPlayedDate |-> date]
SrcUser(id, name) == [InternalId |-> id, Username |-> name]

\* Every source table is an order-preserving selection of these rows.
AllSrcItems == <<SrcItem("ep1", WinA, K1), SrcItem("ep2", None, K2), SrcItem("ep3", <<>>, K2)>>
AllSrcDatas ==
    <<SrcData(formatted_key(K1), 1, 500, "d1"), SrcData(formatted_key(K1), 2, 700, "d2"),
      SrcData(formatted_key(K2), 1, 500, "d1"), SrcData(KShort, 2, 700, "d2")>>
SrcUsersOptions ==
    { <<SrcUser(1, Alice)>>,
      <<SrcUser(1, Alice), SrcUser(2, JellyfinLower)>>,
      <<SrcUser(1, Alice), SrcUser(2, JellyfinTitle)>>,
      <<SrcUser(1, JellyfinLower)>> }

RECURSIVE Selections(_)
Selections(s) ==
    IF s = <<>> THEN {<<>>}
    ELSE LET rest == Selections(Tail(s))
         IN  rest \cup {<<Head(s)>> \o r : r \in rest}

\* One row of the SELECT, as the dictionary appended to exported_data.
exported_row(i, d, u) ==
    WatchRecord(i.Name, i.Path, d.PlaybackPositionTicks, d.LastPlayedDate, u.Username,
                canonical_key(d.Key))

\* JOIN UserDatas d ON i.PresentationUniqueKey = REPLACE(d.Key, '-', '')
\* (a NULL on either side never joins).
key_joins(i, d) ==
    /\ i.PresentationUniqueKey # None
    /\ d.Key # None
    /\ i.PresentationUniqueKey = canonical_key(d.Key)

RECURSIVE join_users(_, _, _, _)
join_users(i, d, users, k) ==
    IF k > Len(users) THEN <<>>
    ELSE (IF d.UserId = users[k].InternalId THEN <<exported_row(i, d, users[k])>> ELSE <<>>)
             \o join_users(i, d, users, k + 1)

RECURSIVE join_datas(_, _, _, _)
join_datas(i, datas, users, j) ==
    IF j > Len(datas) THEN <<>>
    ELSE (IF key_joins(i, datas[j]) THEN join_users(i, datas[j], users, 1) ELSE <<>>)
             \o join_datas(i, datas, users, j + 1)

\* The query of lines 35-47: FROM TypedBaseItems i JOIN UserDatas d JOIN jf.Users u
\* WHERE i.Path IS NOT NULL.
RECURSIVE watched_query(_, _, _, _)
watched_query(items, datas, users, n) ==
    IF n > Len(items) THEN <<>>
    ELSE (IF items[n].Path # None THEN join_datas(items[n], datas, users, 1) ELSE <<>>)
             \o watched_query(items, datas, users, n + 1)

InitExtract ==
    /\ src_items \in Selections(AllSrcItems)
    /\ src_datas \in Selections(AllSrcDatas)
    /\ src_users \in SrcUsersOptions
    /\ exported_data = <<>>
    /\ x_pc = "ready"

ExtractIdle ==
    /\ src_items = <<>>
    /\ src_datas = <<>>
    /\ src_users = <<>>
    /\ exported_data = <<>>
    /\ x_pc = "off"

\* A failure that arrives after json.dump has written the rows.
ExportAborts_after_dump ==
    /\ x_pc = "ready"
    /\ exported_data' = watched_query(src_items, src_datas, src_users, 1)
    /\ x_pc' = "aborted"
    /\ UNCHANGED <<src_items, src_datas, src_users>>
    /\ UNCHANGED <<loaderVars, pathVars, fpVars, devVars, pwVars>>

\* Lines 12-29 and 73-78: a database file is missing, the connection or the query
\* fails; nothing is written.
ExportAborts ==
    /\ x_pc = "ready"
    /\ x_pc' = "aborted"
    /\ UNCHANGED <<src_items, src_datas, src_users, exported_data>>
    /\ UNCHANGED <<loaderVars, pathVars, fpVars, devVars, pwVars>>

\* Lines 49-71: the query runs and its rows are written to the artifact.
Export ==
    /\ x_pc = "ready"
    /\ exported_data' = watched_query(src_items, src_datas, src_users, 1)
    /\ x_pc' = "written"
    /\ UNCHANGED <<src_items, src_datas, src_users>>
    /\ UNCHANGED <<loaderVars, pathVars, fpVars, devVars, pwVars>>

----------------------------------------------------------------------------
(* The device importer: main() of devices-import.py, one action per step *)

\* A record of devices.json, the fields main() reads.
DeviceRecord(username, device_id, device_name, token) ==
    [Username |-> username, DeviceId |-> device_id, DeviceName |-> device_name,
     AccessToken |-> token, AppName |-> "app", AppVersion |-> "v1", IsActive |-> 1,
     DateCreated |-> "c0", DateModified |-> "m0", DateLastActivity |-> "a0"]

\* A Devices row, the ten columns the INSERT names.
DeviceRow(device, uid) ==
    [AccessToken |-> device.AccessToken, AppName |-> device.AppName,
     AppVersion |-> device.AppVersion, DeviceName |-> device.DeviceName,
     DeviceId |-> device.DeviceId, IsActive |-> device.IsActive,
     DateCreated |-> device.DateCreated, DateModified |-> device.DateModified,
     DateLastActivity |-> device.DateLastActivity, UserId |-> uid]

DeviceRecords ==
    { DeviceRecord("alice", "dev1", "phone", "t1"),
      DeviceRecord("alice", "dev1", "phone again", "t2"),
      DeviceRecord("bob", "dev1", "tv", "t3"),
      DeviceRecord("alice", "dev2", "tablet", "t4"),
      DeviceRecord("carol", "dev3", "laptop", "t5") }

DeviceArtifacts == SeqsUpTo(DeviceRecords, MaxLen)

DeviceUsersOptions == UsersOptions \cup { {} }

ExistingDevice == DeviceRow(DeviceRecord("alice", "dev1", "old phone", "t0"), "u1")
ForeignDevice == DeviceRow(DeviceRecord("dave", "dev1", "console", "t9"), "u9")

DevicesOptions ==
    { EmptyBag,
      SetToBag({ExistingDevice}),
      SetToBag({ExistingDevice, ForeignDevice}) }

\* get_user_map of devices-import.py: the dict of Username -> Id ({} when the
\* SELECT raises, which main() takes for "no users").
device_user_map(rows) == get_user_map(rows)

\* A check with the device id bound to both parameters of the SELECT.
device_exists_mixed_up(t, device_id, user_id) ==
    \E r \in DOMAIN t : r.DeviceId = device_id /\ r.UserId = device_id

\* device_exists: SELECT 1 FROM Devices WHERE DeviceId = ? AND UserId = ? on the
\* cursor of the open transaction; fetchone() is not None.
device_exists(t, device_id, user_id) ==
    \E r \in DOMAIN t : r.DeviceId = device_id /\ r.UserId = user_id

\* A plain INSERT INTO Devices.
insert_device(t, row) == t (+) SetToBag({row})

device == device_data[d_idx]
d_new_user_id == dict_get(d_user_map, device.Username)

DevInLoop == d_pc = "loop" /\ d_idx <= Len(device_data)

InitDevices ==
    /\ d_users \in DeviceUsersOptions
    /\ Devices \in DevicesOptions
    /\ d_tx = Devices
    /\ d_pre = Devices
    /\ device_data = <<>>
    /\ d_user_map = <<>>
    /\ d_idx = 1
    /\ d_pc = "idle"
    /\ d_status = "none"
    /\ d_prev_status = "none"
    /\ d_migrated_count = 0
    /\ d_skipped_count = 0
    /\ d_rerun = FALSE

DevIdle ==
    /\ d_users = {}
    /\ Devices = EmptyBag
    /\ d_tx = EmptyBag
    /\ d_pre = EmptyBag
    /\ device_data = <<>>
    /\ d_user_map = <<>>
    /\ d_idx = 1
    /\ d_pc = "off"
    /\ d_status = "none"
    /\ d_prev_status = "none"
    /\ d_migrated_count = 0
    /\ d_skipped_count = 0
    /\ d_rerun = FALSE

\* Lines 32-63: a file is missing, the connection fails, the JSON does not load,
\* or get_user_map gives an empty dict (no Users row, or its SELECT raised).
DevAbort ==
    /\ d_pc = "idle"
    /\ d_pc' = "done"
    /\ d_status' = "aborted"
    /\ d_pre' = Devices
    /\ UNCHANGED <<d_users, Devices, d_tx, device_data, d_user_map, d_idx,
                   d_migrated_count, d_skipped_count, d_rerun, d_prev_status>>
    /\ UNCHANGED <<loaderVars, extractVars, pathVars, fpVars, pwVars>>

\* Lines 32-69: the checks pass, the artifact is loaded, the user map is not empty.
DevStart ==
    /\ d_pc = "idle"
    /\ device_user_map(d_users) # <<>>
    /\ IF d_rerun THEN device_data' = device_data
                  ELSE device_data' \in DeviceArtifacts
    /\ d_user_map' = device_user_map(d_users)
    /\ d_pre' = Devices
    /\ d_tx' = Devices
    /\ d_idx' = 1
    /\ d_migrated_count' = 0
    /\ d_skipped_count' = 0
    /\ d_pc' = "loop"
    /\ d_status' = "running"
    /\ UNCHANGED <<d_users, Devices, d_rerun, d_prev_status>>
    /\ UNCHANGED <<loaderVars, extractVars, pathVars, fpVars, pwVars>>

\* Lines 76-80: the username has no truthy id in the user map.
DevSkipUnknownUser ==
    /\ DevInLoop
    /\ ~TruthyId(d_new_user_id)
    /\ d_skipped_count' = d_skipped_count + 1
    /\ d_idx' = d_idx + 1
    /\ UNCHANGED <<d_users, Devices, d_tx, device_data, d_user_map, d_pc, d_status,
                   d_migrated_count, d_pre, d_rerun, d_prev_status>>
    /\ UNCHANGED <<loaderVars, extractVars, pathVars, fpVars, pwVars>>

\* Lines 83-86: the transaction already sees a row of (DeviceId, UserId).
DevSkipExisting ==
    /\ DevInLoop
    /\ TruthyId(d_new_user_id)
    /\ device_exists(d_tx, device.DeviceId, d_new_user_id)
    /\ d_skipped_count' = d_skipped_count + 1
    /\ d_idx' = d_idx + 1
    /\ UNCHANGED <<d_users, Devices, d_tx, device_data, d_user_map, d_pc, d_status,
                   d_migrated_count, d_pre, d_rerun, d_prev_status>>
    /\ UNCHANGED <<loaderVars, extractVars, pathVars, fpVars, pwVars>>

\* Lines 88-102: the row is inserted inside the transaction.
DevInsert ==
    /\ DevInLoop
    /\ TruthyId(d_new_user_id)
    /\ ~device_exists(d_tx, device.DeviceId, d_new_user_id)
    /\ d_tx' = insert_device(d_tx, DeviceRow(device, d_new_user_id))
    /\ d_migrated_count' = d_migrated_count + 1
    /\ d_idx' = d_idx + 1
    /\ UNCHANGED <<d_users, Devices, device_data, d_user_map, d_pc, d_status,
                   d_skipped_count, d_pre, d_rerun, d_prev_status>>
    /\ UNCHANGED <<loaderVars, extractVars, pathVars, fpVars, pwVars>>

\* Lines 110-116: the SELECT or the INSERT of this record raises sqlite3.Error.
DevSqliteError ==
    /\ DevInLoop
    /\ TruthyId(d_new_user_id)
    /\ Devices' = rollback(Devices, d_tx)
    /\ d_tx' = Devices'
    /\ d_pc' = "done"
    /\ d_status' = "failed"
    /\ UNCHANGED <<d_users, device_data, d_user_map, d_idx, d_migrated_count,
                   d_skipped_count, d_pre, d_rerun, d_prev_status>>
    /\ UNCHANGED <<loaderVars, extractVars, pathVars, fpVars, pwVars>>

\* Lines 104-108, 113-116: the loop is over, commit succeeds, the counts are printed.
DevCommit ==
    /\ d_pc = "loop"
    /\ d_idx > Len(device_data)
    /\ Devices' = commit(Devices, d_tx)
    /\ d_tx' = Devices'
    /\ d_pc' = "done"
    /\ d_status' = "committed"
    /\ UNCHANGED <<d_users, device_data, d_user_map, d_idx, d_migrated_count,
                   d_skipped_count, d_pre, d_rerun, d_prev_status>>
    /\ UNCHANGED <<loaderVars, extractVars, pathVars, fpVars, pwVars>>

\* Lines 105, 110-116: commit raises sqlite3.Error.
DevCommitFails ==
    /\ d_pc = "loop"
    /\ d_idx > Len(device_data)
    /\ Devices' = rollback(Devices, d_tx)
    /\ d_tx' = Devices'
    /\ d_pc' = "done"
    /\ d_status' = "failed"
    /\ UNCHANGED <<d_users, device_data, d_user_map, d_idx, d_migrated_count,
                   d_skipped_count, d_pre, d_rerun, d_prev_status>>
    /\ UNCHANGED <<loaderVars, extractVars, pathVars, fpVars, pwVars>>

\* main() has returned; the next run repeats the artifact or takes another one.
DevFinish ==
    /\ d_pc = "done"
    /\ \E keep \in BOOLEAN :
          /\ d_rerun' = (keep /\ d_status \in {"committed", "failed"})
          /\ device_data' = IF d_rerun' THEN device_data ELSE <<>>
          /\ d_prev_status' = IF d_rerun' THEN d_status ELSE "none"
    /\ d_pc' = "idle"
    /\ d_status' = "none"
    /\ d_user_map' = <<>>
    /\ d_idx' = 1
    /\ d_migrated_count' = 0
    /\ d_skipped_count' = 0
    /\ d_tx' = Devices
    /\ d_pre' = Devices
    /\ UNCHANGED <<d_users, Devices>>
    /\ UNCHANGED <<loaderVars, extractVars, pathVars, fpVars, pwVars>>

----------------------------------------------------------------------------
(* The password transfer: transfer_password_hashes of password-import.py *)

Carol == <<"c", "a", "r", "o", "l">>

PwRow(username, password) == [Username |-> username, Password |-> password]

\* Users rows of the old database; a Username occurs once in a table.
OldRows ==
    { PwRow(Alice, "old_a"), PwRow(JellyfinLower, "old_j"),
      PwRow(JellyfinTitle, "old_J"), PwRow(Carol, "old_c") }

OldUsersOptions ==
    { s \in SeqsUpTo(OldRows, MaxLen) :
        \A i, j \in 1..Len(s) : s[i].Username = s[j].Username => i = j }

\* Username = ? as the new database compares it: BINARY, or NOCASE when the
\* column is declared so.
sql_eq(nocase, a, b) == IF nocase THEN lower(a) = lower(b) ELSE a = b

\* Users tables of the new database; a Username occurs once under the collation.
NewUsersOptions(nocase) ==
    { t \in { {PwRow(Alice, "new_a")},
              {PwRow(Alice, "new_a"), PwRow(JellyfinLower, "new_j")},
              {PwRow(Alice, "new_a"), PwRow(JellyfinTitle, "new_J")},
              {PwRow(JellyfinLower, "new_j"), PwRow(JellyfinTitle, "new_J")},
              {PwRow(Carol, "new_c"), PwRow(JellyfinTitle, "new_J")} } :
        \A r, q \in t : sql_eq(nocase, r.Username, q.Username) => r = q }

\* {row[0]: row[1] for row in rows}: a key keeps the place of its first row and
\* the value of its last.
dict_put(items, k, v) ==
    IF \E i \in 1..Len(items) : items[i][1] = k
    THEN [i \in 1..Len(items) |-> IF items[i][1] = k THEN <<k, v>> ELSE items[i]]
    ELSE Append(items, <<k, v>>)

RECURSIVE dict_of_rows(_, _)
dict_of_rows(rows, n) ==
    IF n = 0 THEN <<>>
    ELSE dict_put(dict_of_rows(rows, n - 1), rows[n].Username, rows[n].Password)

\* An exclusion that compares the username as it is written.
is_jellyfin_exact(username) == username = JellyfinLower

\* Line 55: username.lower() == 'jellyfin'.
is_jellyfin(username) == lower(username) = JellyfinLower

\* UPDATE Users SET Password = ? WHERE Username = ?
update_password(t, nocase, password_hash, username) ==
    { IF sql_eq(nocase, r.Username, username)
      THEN [r EXCEPT !.Password = password_hash] ELSE r : r \in t }

username == old_users_data[p_idx][1]
password_hash == old_users_data[p_idx][2]

PwInLoop == p_pc = "loop" /\ p_idx <= Len(old_users_data)

InitPw ==
    /\ old_users \in OldUsersOptions
    /\ p_nocase \in BOOLEAN
    /\ new_users \in NewUsersOptions(p_nocase)
    /\ p_tx = new_users
    /\ p_pre = new_users
    /\ old_users_data = <<>>
    /\ new_users_set = {}
    /\ p_idx = 1
    /\ p_pc = "idle"
    /\ p_status = "none"
    /\ updated_count = 0
    /\ skipped_count = 0

PwIdle ==
    /\ old_users = <<>>
    /\ p_nocase = FALSE
    /\ new_users = {}
    /\ p_tx = {}
    /\ p_pre = {}
    /\ old_users_data = <<>>
    /\ new_users_set = {}
    /\ p_idx = 1
    /\ p_pc = "off"
    /\ p_status = "none"
    /\ updated_count = 0
    /\ skipped_count = 0

\* Lines 19-24: a database file is missing; the function returns before the try.
PwNotFound ==
    /\ p_pc = "idle"
    /\ p_pc' = "done"
    /\ p_status' = "not_found"
    /\ p_pre' = new_users
    /\ UNCHANGED <<old_users, new_users, p_nocase, p_tx, old_users_data, new_users_set,
                   p_idx, updated_count, skipped_count>>
    /\ UNCHANGED <<loaderVars, extractVars, pathVars, fpVars, devVars>>

\* Lines 33-49, 79-92: a connect or one of the two SELECTs raises sqlite3.Error;
\* "No changes were committed. Your new database remains untouched." is printed.
PwFetchFails ==
    /\ p_pc = "idle"
    /\ p_pc' = "done"
    /\ p_status' = "untouched"
    /\ p_pre' = new_users
    /\ UNCHANGED <<old_users, new_users, p_nocase, p_tx, old_users_data, new_users_set,
                   p_idx, updated_count, skipped_count>>
    /\ UNCHANGED <<loaderVars, extractVars, pathVars, fpVars, devVars>>

\* Lines 26-52: both databases are read.
PwStart ==
    /\ p_pc = "idle"
    /\ old_users_data' = dict_of_rows(old_users, Len(old_users))
    /\ new_users_set' = { r.Username : r \in new_users }
    /\ p_pre' = new_users
    /\ p_tx' = new_users
    /\ p_idx' = 1
    /\ updated_count' = 0
    /\ skipped_count' = 0
    /\ p_pc' = "loop"
    /\ p_status' = "running"
    /\ UNCHANGED <<old_users, new_users, p_nocase>>
    /\ UNCHANGED <<loaderVars, extractVars, pathVars, fpVars, devVars>>

\* Lines 55-57: the excluded user.
PwSkipExcluded ==
    /\ PwInLoop
    /\ is_jellyfin(username)
    /\ p_idx' = p_idx + 1
    /\ UNCHANGED <<old_users, new_users, p_nocase, p_tx, old_users_data, new_users_set,
                   p_pc, p_status, updated_count, skipped_count, p_pre>>
    /\ UNCHANGED <<loaderVars, extractVars, pathVars, fpVars, devVars>>

\* Lines 60-68: the user is in the new database, the UPDATE runs.
PwUpdate ==
    /\ PwInLoop
    /\ ~is_jellyfin(username)
    /\ username \in new_users_set
    /\ p_tx' = update_password(p_tx, p_nocase, password_hash, username)
    /\ updated_count' = updated_count + 1
    /\ p_idx' = p_idx + 1
    /\ UNCHANGED <<old_users, new_users, p_nocase, old_users_data, new_users_set,
                   p_pc, p_status, skipped_count, p_pre>>
    /\ UNCHANGED <<loaderVars, extractVars, pathVars, fpVars, devVars>>

\* Lines 60-70: the UPDATE raises sqlite3.Error; the inner except prints and the
\* loop goes on.
PwUpdateFails ==
    /\ PwInLoop
    /\ ~is_jellyfin(username)
    /\ username \in new_users_set
    /\ p_idx' = p_idx + 1
    /\ UNCHANGED <<old_users, new_users, p_nocase, p_tx, old_users_data, new_users_set,
                   p_pc, p_status, updated_count, skipped_count, p_pre>>
    /\ UNCHANGED <<loaderVars, extractVars, pathVars, fpVars, devVars>>

\* Lines 71-73: the user is not in the new database.
PwSkipMissing ==
    /\ PwInLoop
    /\ ~is_jellyfin(username)
    /\ username \notin new_users_set
    /\ skipped_count' = skipped_count + 1
    /\ p_idx' = p_idx + 1
    /\ UNCHANGED <<old_users, new_users, p_nocase, p_tx, old_users_data, new_users_set,
                   p_pc, p_status, updated_count, p_pre>>
    /\ UNCHANGED <<loaderVars, extractVars, pathVars, fpVars, devVars>>

\* Lines 76-77, 83-92: commit succeeds, the connections are closed.
PwCommit ==
    /\ p_pc = "loop"
    /\ p_idx > Len(old_users_data)
    /\ new_users' = commit(new_users, p_tx)
    /\ p_tx' = new_users'
    /\ p_pc' = "done"
    /\ p_status' = "committed"
    /\ UNCHANGED <<old_users, p_nocase, old_users_data, new_users_set, p_idx,
                   updated_count, skipped_count, p_pre>>
    /\ UNCHANGED <<loaderVars, extractVars, pathVars, fpVars, devVars>>

\* Lines 76, 79-92: commit raises sqlite3.Error; the message is printed, no
\* rollback is called, and close() ends the connection with its transaction open.
PwCommitFails ==
    /\ p_pc = "loop"
    /\ p_idx > Len(old_users_data)
    /\ new_users' = rollback(new_users, p_tx)
    /\ p_tx' = new_users'
    /\ p_pc' = "done"
    /\ p_status' = "untouched"
    /\ UNCHANGED <<old_users, p_nocase, old_users_data, new_users_set, p_idx,
                   updated_count, skipped_count, p_pre>>
    /\ UNCHANGED <<loaderVars, extractVars, pathVars, fpVars, devVars>>

\* The function has returned; it may be called again on the same databases.
PwFinish ==
    /\ p_pc = "done"
    /\ p_pc' = "idle"
    /\ p_status' = "none"
    /\ old_users_data' = <<>>
    /\ new_users_set' = {}
    /\ p_idx' = 1
    /\ updated_count' = 0
    /\ skipped_count' = 0
    /\ p_tx' = new_users
    /\ p_pre' = new_users
    /\ UNCHANGED <<old_users, new_users, p_nocase>>
    /\ UNCHANGED <<loaderVars, extractVars, pathVars, fpVars, devVars>>

----------------------------------------------------------------------------
(* Specifications *)

Init == InitLoader /\ ExtractIdle /\ PathIdle /\ FpIdle /\ DevIdle /\ PwIdle

Next ==
    \/ AbortRun
    \/ StartRun
    \/ SkipUnknownUser
    \/ RaiseOnPath
    \/ SkipUnresolved
    \/ UpsertRow
    \/ SqliteError
    \/ Commit
    \/ CommitFails
    \/ Finish

Spec == Init /\ [][Next]_vars

InitPathSpec == InitPath /\ LoaderIdle /\ ExtractIdle /\ FpIdle /\ DevIdle /\ PwIdle

SpecPath == InitPathSpec /\ [][CallTranslatePath]_vars

InitFpSpec == InitFp /\ LoaderIdle /\ ExtractIdle /\ PathIdle /\ DevIdle /\ PwIdle

NextFp == FormatUndashed \/ Canonicalize \/ Reformat

SpecFp == InitFpSpec /\ [][NextFp]_vars

InitExtractSpec == InitExtract /\ LoaderIdle /\ PathIdle /\ FpIdle /\ DevIdle /\ PwIdle

NextExtract == ExportAborts \/ Export

SpecExtract == InitExtractSpec /\ [][NextExtract]_vars

\* Either script is run: the Loader on a destination, or the Extractor on a source.
InitScripts == Init \/ InitExtractSpec

NextScripts == Next \/ NextExtract

SpecScripts == InitScripts /\ [][NextScripts]_vars

InitDevSpec == InitDevices /\ LoaderIdle /\ ExtractIdle /\ PathIdle /\ FpIdle /\ PwIdle

NextDev ==
    \/ DevAbort
    \/ DevStart
    \/ DevSkipUnknownUser
    \/ DevSkipExisting
    \/ DevInsert
    \/ DevSqliteError
    \/ DevCommit
    \/ DevCommitFails
    \/ DevFinish

SpecDevices == InitDevSpec /\ [][NextDev]_vars

InitPwSpec == InitPw /\ LoaderIdle /\ ExtractIdle /\ PathIdle /\ FpIdle /\ DevIdle

NextPw ==
    \/ PwNotFound
    \/ PwFetchFails
    \/ PwStart
    \/ PwSkipExcluded
    \/ PwUpdate
    \/ PwUpdateFails
    \/ PwSkipMissing
    \/ PwCommit
    \/ PwCommitFails
    \/ PwFinish

SpecPassword == InitPwSpec /\ [][NextPw]_vars

----------------------------------------------------------------------------
(* Properties of the Loader *)

\* C1 (idempotence): when a run repeats the artifact of the run before it, and that
\* run committed (or ended on the artifact's own defect), the committed UserDatas
\* at the end of the second run is what the first run left (pre): same rows, same
\* values, same number of copies.
C1_Idempotent ==
    (pc = "done" /\ rerun /\ prev_status \in {"committed", "crashed"}) => UserDatas = pre

\* Two records of the artifact hit one pair, both runs committed.
C1_Witness ==
    /\ pc = "done" /\ rerun /\ prev_status = "committed" /\ status = "committed"
    /\ Len(watched_data) >= 2
    /\ migrated_count = Len(watched_data)
    /\ BagCardinality(UserDatas) = 1

\* C2 (all or nothing): from the start of a run until its commit has succeeded, and
\* for good when it ends any other way, the committed UserDatas is the one the run
\* started from.
C2_AllOrNothing ==
    (pc \in {"loop", "done"} /\ status # "committed") => UserDatas = pre

\* A store error after at least one successful upsert.
C2_Witness == pc = "done" /\ status = "failed" /\ migrated_count >= 1

\* The record under the loop has a known user and a Path that translates to the
\* Path of no catalog row.
Unresolvable ==
    /\ InLoop
    /\ TruthyId(new_user_id)
    /\ item.Path # None
    /\ \A k \in 1..Len(TypedBaseItems) : TypedBaseItems[k].Path # translate_path(item.Path)

\* The step that skips the record under the loop for its media.
SkipsMedia ==
    /\ tx' = tx
    /\ idx' = idx + 1
    /\ pc' = "loop"
    /\ migrated_count' = migrated_count
    /\ out' = Append(out, Msg("skip_media", idx))

UnknownUser == InLoop /\ item.Username \notin DOMAIN user_map

\* The step that skips the record under the loop for its user, without a catalog
\* query.
SkipsUser ==
    /\ tx' = tx
    /\ UserDatas' = UserDatas
    /\ lib_queries' = lib_queries
    /\ idx' = idx + 1
    /\ pc' = "loop"
    /\ migrated_count' = migrated_count
    /\ out' = Append(out, Msg("skip_user", idx))

UserOf(j) == dict_get(user_map, watched_data[j].Username)
KeyOf(j) == get_new_presentation_key(TypedBaseItems, translate_path(watched_data[j].Path))
Passes(j) == TruthyId(UserOf(j)) /\ watched_data[j].Path # None /\ TruthyStr(KeyOf(j))
SamePair(j, m) == Passes(j) /\ Passes(m) /\ UserOf(j) = UserOf(m) /\ KeyOf(j) = KeyOf(m)
LastOfPair(j) ==
    CHOOSE m \in 1..Len(watched_data) :
        /\ SamePair(j, m)
        /\ \A n \in 1..Len(watched_data) : SamePair(j, n) => n <= m

\* The committed table holds row once and no other row of its pair.
HoldsOnly(row) ==
    /\ CopiesIn(row, UserDatas) = 1
    /\ \A r \in DOMAIN UserDatas : (r.Key = row.Key /\ r.UserId = row.UserId) => r = row

\* C6 (as amended): after a committed run, every record that passed both checks has
\* exactly one row for (dashed fingerprint returned by the lookup, user id), with
\* Played 1, PlayCount 1, IsFavorite 0, both stream indexes -1, and the ticks and
\* date of the last record of the artifact that resolves to the same pair.
C6_RowContent ==
    (pc = "done" /\ status = "committed") =>
        \A j \in 1..Len(watched_data) :
            Passes(j) =>
                HoldsOnly(DataRow(formatted_key(KeyOf(j)), UserOf(j), 1, 1, 0,
                                  watched_data[LastOfPair(j)].PlaybackPositionTicks,
                                  watched_data[LastOfPair(j)].LastPlayedDate, -1, -1))

\* A committed run wrote a row over a row the destination already had.
C6_Witness ==
    /\ pc = "done" /\ status = "committed" /\ migrated_count >= 1
    /\ ExistingRow \in DOMAIN pre
    /\ ExistingRow \notin DOMAIN UserDatas

\* C6 (as claimed): ... with the ticks and date of the record itself.
C6_Original ==
    (pc = "done" /\ status = "committed") =>
        \A j \in 1..Len(watched_data) :
            Passes(j) =>
                HoldsOnly(DataRow(formatted_key(KeyOf(j)), UserOf(j), 1, 1, 0,
                                  watched_data[j].PlaybackPositionTicks,
                                  watched_data[j].LastPlayedDate, -1, -1))

UniqueRows(t) ==
    \A r \in DOMAIN t :
        /\ t[r] = 1
        /\ \A q \in DOMAIN t : (q.Key = r.Key /\ q.UserId = r.UserId) => q = r

\* C10 (row uniqueness): in every state, the committed UserDatas and the table as
\* the open transaction sees it hold at most one row per (Key, UserId), each once.
C10_UniquePair == UniqueRows(UserDatas) /\ UniqueRows(tx)

\* Inside a transaction, a pair that had a row now has another row in its place.
C10_Witness ==
    /\ pc = "loop"
    /\ \E r \in DOMAIN pre : \E q \in DOMAIN tx :
          q.Key = r.Key /\ q.UserId = r.UserId /\ q # r /\ r \notin DOMAIN tx

\* Rows of the destination catalog whose Path equals the translated path of the
\* record under the loop.
PathMatches == { k \in 1..Len(TypedBaseItems) : TypedBaseItems[k].Path = new_path }

Ambiguous ==
    /\ InLoop /\ TruthyId(new_user_id) /\ item.Path # None
    /\ Cardinality(PathMatches) > 1

\* C11 (ambiguous path is a resolver error): a step taken on a record whose
\* translated path has more than one catalog entry writes no row, counts nothing
\* as migrated and reports the record.
C11_AmbiguousIsError ==
    [][Ambiguous => /\ tx' = tx
                    /\ migrated_count' = migrated_count
                    /\ out' # out]_vars

Perms(n) == { f \in [1..n -> 1..n] : \A i, j \in 1..n : f[i] = f[j] => i = j }
Permuted(data, f) == [k \in 1..Len(data) |-> data[f[k]]]
NoDupPairs == \A j, m \in 1..Len(watched_data) : SamePair(j, m) => j = m
CountOf(data, what) ==
    Cardinality({ k \in 1..Len(data) : outcome(user_map, TypedBaseItems, data[k]) = what })
Printed(kind) == Cardinality({ k \in 1..Len(out) : out[k].kind = kind })

\* C12 (commutativity): when no two records of the artifact resolve to the same
\* (fingerprint, user) pair, the table a finished run leaves is the table the
\* loader leaves on every permutation of the artifact, and a committed run's
\* migrated count and skips per reason are those of every permutation.
C12_Commutes ==
    (pc = "done" /\ status \in {"committed", "crashed"} /\ NoDupPairs) =>
        \A f \in Perms(Len(watched_data)) :
            /\ UserDatas = loader_result(user_map, TypedBaseItems, pre,
                                         Permuted(watched_data, f))
            /\ status = "committed" =>
                  /\ migrated_count = CountOf(Permuted(watched_data, f), "migrated")
                  /\ Printed("skip_user") = CountOf(Permuted(watched_data, f), "skip_user")
                  /\ Printed("skip_media") = CountOf(Permuted(watched_data, f), "skip_media")

\* A committed run wrote two different pairs.
C12_Witness ==
    /\ pc = "done" /\ status = "committed" /\ NoDupPairs
    /\ migrated_count = 2
    /\ UserOf(1) # UserOf(2)
    /\ KeyOf(1) = KeyOf(2)

\* Row r is, under the artifact of the run, the row of a record that passed both
\* checks: its (Key, UserId) is (dashed fingerprint, user id) of that record.
PairOfPassing(r) ==
    \E j \in 1..Len(watched_data) :
        Passes(j) /\ r.Key = formatted_key(KeyOf(j)) /\ r.UserId = UserOf(j)

\* Rows that table t and table u do not hold the same number of times.
Changed(t, u) == { r \in DOMAIN t \cup DOMAIN u : CopiesIn(r, t) # CopiesIn(r, u) }

\* C13 (frame): no step of a run changes a Users row or a TypedBaseItems entry,
\* and every UserDatas row a step adds, removes or replaces, in the committed table
\* or in the open transaction, has the (Key, UserId) of a record of the artifact
\* that passed both checks.
C13_Frame ==
    [][/\ Users' = Users
       /\ TypedBaseItems' = TypedBaseItems
       /\ \A r \in Changed(UserDatas, UserDatas') \cup Changed(tx, tx') :
             PairOfPassing(r)]_vars

\* A committed run wrote a row and left the other rows of the table, one of the
\* same user and one of the same fingerprint, as they were.
C13_Witness ==
    /\ pc = "done" /\ status = "committed" /\ migrated_count >= 1
    /\ UserDatas # pre
    /\ ExistingRow \in DOMAIN UserDatas
    /\ ForeignRow \in DOMAIN UserDatas
    /\ \E r \in DOMAIN UserDatas : r.Key = ForeignRow.Key /\ r.UserId = ExistingRow.UserId

\* The artifact has a record without one of the fields main() reads with item.get
\* and needs for the row (item.get gives None for a field that is missing).
Malformed(data) ==
    \E j \in 1..Len(data) :
        \/ data[j].Path = None
        \/ data[j].Username = NoneAtom
        \/ data[j].LastPlayedDate = NoneAtom

\* C14 (malformed artifact aborts before any mutation): after a run on an artifact
\* with a record that lacks a required field, UserDatas is as it was before the run.
C14_MalformedAborts ==
    (pc = "done" /\ Malformed(watched_data)) => UserDatas = pre

\* C15 (store unavailable): a Loader run that ends at the file checks or at the
\* connections has read no record, queried nothing, written nothing and leaves
\* UserDatas as it was; an Extractor run that ends there has written no artifact.
C15_UnavailableAborts ==
    /\ (pc = "done" /\ status = "aborted") =>
          /\ UserDatas = pre /\ tx = pre
          /\ idx = 1 /\ migrated_count = 0 /\ lib_queries = 0
          /\ Len(out) = 1
    /\ x_pc = "aborted" => exported_data = <<>>

\* A Loader run ends at the connections on a destination that an earlier run
\* had written to.
C15_Witness ==
    /\ pc = "done" /\ status = "aborted"
    /\ out = <<Msg("connect_error", 0)>>
    /\ prev_status = "committed"
    /\ UserDatas # EmptyBag

RECURSIVE SumFields(_, _)
SumFields(rec, S) ==
    IF S = {} THEN 0
    ELSE LET f == CHOOSE x \in S : TRUE
         IN  rec[f] + SumFields(rec, S \ {f})

Relabels == {<<"ep1", K1>>, <<"renamed", K2>>}
Variants(data) ==
    { [k \in 1..Len(data) |->
          [data[k] EXCEPT !.ItemName = c[k][1], !.PresentationUniqueKey = c[k][2]]] :
      c \in [1..Len(data) -> Relabels] }

\* C17 (independence of ItemName and PresentationUniqueKey): the table a finished
\* run leaves is the table the loader leaves on every artifact that differs from
\* the run's in the ItemName and PresentationUniqueKey of its records only, and
\* every row the run wrote has the dashed PresentationUniqueKey of a destination
\* catalog entry as its Key.
C17_IgnoresNameAndKey ==
    (pc = "done" /\ status \in {"committed", "crashed"}) =>
        /\ \A v \in Variants(watched_data) :
              UserDatas = loader_result(user_map, TypedBaseItems, pre, v)
        /\ \A r \in Changed(pre, UserDatas) \cap DOMAIN UserDatas :
              \E k \in 1..Len(TypedBaseItems) :
                  r.Key = formatted_key(TypedBaseItems[k].PresentationUniqueKey)

\* A committed run wrote the row of a record whose own PresentationUniqueKey is
\* the fingerprint of no destination catalog entry.
C17_Witness ==
    /\ pc = "done" /\ status = "committed"
    /\ \E j \in 1..Len(watched_data) :
          /\ Passes(j)
          /\ \A k \in 1..Len(TypedBaseItems) :
                TypedBaseItems[k].PresentationUniqueKey
                    # watched_data[j].PresentationUniqueKey
          /\ \E r \in Changed(pre, UserDatas) \cap DOMAIN UserDatas :
                r.Key = formatted_key(KeyOf(j))

HexChars == {"0", "1", "2", "3", "4", "5", "6", "7", "8", "9",
             "a", "b", "c", "d", "e", "f", "A", "B", "C", "D", "E", "F"}

\* Five groups of 8, 4, 4, 4 and 12 hex characters with a dash between them.
IsDashedKey(key) ==
    /\ Len(key) = 36
    /\ \A p \in 1..Len(key) :
          IF p \in {9, 14, 19, 24} THEN key[p] = "-" ELSE key[p] \in HexChars

\* C19 (shape of every written key, as claimed): every row of the committed
\* UserDatas has a Key of five dash-separated groups of 8, 4, 4, 4 and 12 hex
\* characters, whatever fingerprint the catalog lookup returned.
C19_KeyShape == \A r \in DOMAIN UserDatas : IsDashedKey(r.Key)

Passing == { j \in 1..Len(watched_data) : Passes(j) }
PairsWritten == { <<KeyOf(j), UserOf(j)>> : j \in Passing }
RowsOfPair(j) ==
    { r \in DOMAIN UserDatas : r.Key = formatted_key(KeyOf(j)) /\ r.UserId = UserOf(j) }

\* C20 (duplicate pairs): after a committed run, the one row of a pair carries the
\* PlaybackPositionTicks and LastPlayedDate of the last record of the artifact that
\* resolves to the pair; the reported migrated count is the number of records that
\* passed both checks, and it exceeds the number of pairs written as soon as two
\* records resolve to one pair.
C20_LastWriterWins ==
    (pc = "done" /\ status = "committed") =>
        /\ \A j \in Passing :
              /\ Cardinality(RowsOfPair(j)) = 1
              /\ \A r \in RowsOfPair(j) : CopiesIn(r, UserDatas) = 1
              /\ (\A m \in Passing : SamePair(j, m) => m <= j) =>
                    \A r \in RowsOfPair(j) :
                        /\ r.PlaybackPositionTicks = watched_data[j].PlaybackPositionTicks
                        /\ r.LastPlayedDate = watched_data[j].LastPlayedDate
        /\ migrated_count = Cardinality(Passing)
        /\ out[Len(out) - 1] = Msg("complete", Cardinality(Passing))
        /\ (\E j, m \in Passing : j # m /\ SamePair(j, m))
              => migrated_count > Cardinality(PairsWritten)

\* A committed run took two records of one pair with different ticks and dates.
C20_Witness ==
    /\ pc = "done" /\ status = "committed"
    /\ \E j, m \in Passing :
          /\ j < m /\ SamePair(j, m)
          /\ watched_data[j].PlaybackPositionTicks # watched_data[m].PlaybackPositionTicks
          /\ watched_data[j].LastPlayedDate # watched_data[m].LastPlayedDate
    /\ migrated_count = 2
    /\ Cardinality(PairsWritten) = 1

----------------------------------------------------------------------------
(* Properties of the Extractor *)

\* C3 (exclusion, as claimed): no record of the written artifact has the excluded
\* system account as its Username.
C3_NoSystemAccount ==
    x_pc = "written" =>
        \A k \in 1..Len(exported_data) : ~is_excluded_user(exported_data[k].Username)

\* C18 (path filter, as claimed): no record of the written artifact has a null or
\* an empty Path.
C18_PathFilter ==
    x_pc = "written" =>
        \A k \in 1..Len(exported_data) :
            exported_data[k].Path # None /\ exported_data[k].Path # <<>>

----------------------------------------------------------------------------
(* Properties of translate_path *)

\* C7 (totality, as claimed): translate_path returns for every Path value, None
\* included, and a path without the source prefix comes back with its backslashes
\* turned into slashes and nothing else changed.
C7_TranslateTotal ==
    path_pc = "returned" =>
        /\ ~path_raised
        /\ Occurrences(windows_path, SrcPrefix) = 0
             => path_result = replace(windows_path, <<BS>>, <<SL>>)

\* C8 (prefix rule, as claimed): the source prefix is substituted once and only at
\* the start of the path; the separator fix-up follows in every case.
C8_PrefixOnce ==
    (path_pc = "returned" /\ ~path_raised) =>
        path_result =
            replace(IF StartsWith(windows_path, SrcPrefix)
                    THEN DstPrefix \o SliceFrom(windows_path, Len(SrcPrefix))
                    ELSE windows_path,
                    <<BS>>, <<SL>>)

----------------------------------------------------------------------------
(* Properties of the fingerprint renderings *)

\* C9 (round trip): for an undashed 32-character fingerprint F, removing the dashes
\* of the Loader's rendering gives F back and rendering that again gives the same
\* rendering; for a dashed 8-4-4-4-12 input D, removing the dashes and rendering
\* gives D back.
C9_RoundTrip ==
    /\ (fp_pc \in {"canon", "done"} /\ fp_in \in UndashedInputs) => fp_canon = fp_in
    /\ (fp_pc = "done" /\ fp_in \in UndashedInputs) => fp_reformatted = fp_formatted
    /\ (fp_pc = "done" /\ fp_in \in DashedInputs) => fp_reformatted = fp_in

\* An undashed fingerprint went through the round trip and its rendering is one of
\* the 8-4-4-4-12 strings.
C9_Witness ==
    /\ fp_pc = "done"
    /\ fp_in \in UndashedInputs
    /\ fp_formatted \in DashedInputs
    /\ fp_formatted # fp_in

----------------------------------------------------------------------------
(* Properties of the device importer *)

\* Number of rows of (device_id, user_id) in table t.
RowsOfDevice(t, device_id, user_id) ==
    LET same == { r \in DOMAIN t : r.DeviceId = device_id /\ r.UserId = user_id }
    IN  BagCardinality([r \in same |-> t[r]])

DevicePairs(t) == { <<r.DeviceId, r.UserId>> : r \in DOMAIN t }

\* C21 (no duplicate device): at every point of a run, a (DeviceId, UserId) pair
\* the destination had before the run has the rows it had, a pair it did not have
\* has at most one row, and the rows added are as many as migrated_count; a run
\* that repeats the artifact of a committed run inserts nothing and counts every
\* record as skipped.
C21_NoDuplicateDevice ==
    /\ d_pc \in {"loop", "done"} =>
          /\ \A p \in DevicePairs(d_pre) :
                /\ RowsOfDevice(d_tx, p[1], p[2]) = RowsOfDevice(d_pre, p[1], p[2])
                /\ RowsOfDevice(Devices, p[1], p[2]) = RowsOfDevice(d_pre, p[1], p[2])
          /\ \A p \in (DevicePairs(d_tx) \cup DevicePairs(Devices)) \ DevicePairs(d_pre) :
                /\ RowsOfDevice(d_tx, p[1], p[2]) <= 1
                /\ RowsOfDevice(Devices, p[1], p[2]) <= 1
          /\ d_status = "running" =>
                BagCardinality(d_tx) = BagCardinality(d_pre) + d_migrated_count
    /\ (d_pc = "done" /\ d_status = "committed" /\ d_rerun
            /\ d_prev_status = "committed") =>
          /\ Devices = d_pre
          /\ d_migrated_count = 0
          /\ d_skipped_count = Len(device_data)

\* A run that repeats the artifact of a committed run has committed; the artifact
\* lists one (DeviceId, Username) twice and the first run inserted its row.
C21_Witness ==
    /\ d_pc = "done" /\ d_status = "committed" /\ d_rerun /\ d_prev_status = "committed"
    /\ Len(device_data) = 2
    /\ device_data[1].DeviceId = device_data[2].DeviceId
    /\ device_data[1].Username = device_data[2].Username
    /\ device_data[1] # device_data[2]
    /\ \E r \in DOMAIN Devices : r.AccessToken = device_data[1].AccessToken
    /\ \A r \in DOMAIN Devices : r.AccessToken # device_data[2].AccessToken

----------------------------------------------------------------------------
(* Properties of the password transfer *)

\* Rows the new database, committed or inside the transaction, holds and did not
\* hold when the run started.
PwWritten == (p_tx \cup new_users) \ p_pre

\* The username is 'jellyfin' in some letter case.
NamedJellyfin(name) == \E v \in {JellyfinLower, JellyfinTitle} : lower(name) = lower(v)

\* C22 (exclusion and untouched-on-error): in every state of a run, no row of a
\* user whose username is 'jellyfin' in any letter case has been changed; every
\* changed row is the row of a username both databases have and carries the
\* Password the old database has for it; and when the run has printed that the
\* new database remains untouched, the committed Users table is the one of the
\* start of the run.
C22_PasswordTransfer ==
    /\ \A r \in PwWritten :
          /\ ~NamedJellyfin(r.Username)
          /\ \E q \in p_pre : q.Username = r.Username
          /\ \E k \in 1..Len(old_users) :
                old_users[k].Username = r.Username /\ old_users[k].Password = r.Password
    /\ \A r \in p_pre : NamedJellyfin(r.Username) => (r \in p_tx /\ r \in new_users)
    /\ (p_pc = "done" /\ p_status = "untouched") => new_users = p_pre

\* The run updated a password, skipped the 'Jellyfin' user that both databases
\* have, and then reported that the new database remains untouched.
C22_Witness ==
    /\ p_pc = "done" /\ p_status = "untouched"
    /\ updated_count >= 1
    /\ \E k \in 1..Len(old_users) : old_users[k].Username = JellyfinTitle
    /\ \E r \in new_users : r.Username = JellyfinTitle

====
